---- MODULE Spec2Model ----
(***************************************************************************)
(* Model of src/epg.py: the guide builder (build_programs), the timeline   *)
(* cleaner (clean_overlaps) and the programme part of the XMLTV emitter    *)
(* (generate_xmltv), run in the order main() runs them.                    *)
(*                                                                         *)
(* Python dicts are objects with identity: a programme is a cell of `heap` *)
(* and lists hold references (indices into heap), so that p.copy() and the *)
(* in-place writes cur["stop"] = ..., cur["title"] = ... are distinct from *)
(* writes to the caller's programmes.                                      *)
(* Strings are sequences of one-character strings.                         *)
(***************************************************************************)
EXTENDS Integers, Sequences, FiniteSets, TLC

VARIABLES data, strategy, channels, programmes, heap, cleaned, xml_raw, xml_clean, pc

vars == <<data, strategy, channels, programmes, heap, cleaned, xml_raw, xml_clean, pc>>

\* ---------------------------------------------------------------- bounds
\* longest upstream document (stream records) of Spec
MaxLen == 2
\* largest epoch second of Spec's documents (times are 0..MaxTime)
MaxTime == 2
\* longest upstream document of SpecRun, whose records are all on one channel
MaxRun == 3
\* largest epoch second of SpecRun's documents
MaxRunTime == 3
\* longest upstream document of SpecUpstream, whose records may lack fields
MaxStreams == 2
\* largest epoch second of SpecUpstream's documents
MaxUpTime == 1

\* ------------------------------------------------------ values and strings
\* a JSON field that is null, missing or "" (all are falsy for `or`)
Absent == <<>>
\* starts_at / ends_at that is null or missing (real times are >= 0 here)
NoTime == -1
\* cur = None
NoRef == 0

Digits == <<"0", "1", "2", "3", "4", "5", "6", "7", "8", "9">>

\* str(n) of a non-negative integer
RECURSIVE Str(_)
Str(n) == IF n < 10 THEN <<Digits[n + 1]>> ELSE Str(n \div 10) \o <<Digits[(n % 10) + 1]>>

\* ord(c) of the characters channel ids are made of
CodePoint ==
  [c \in {"/", "_", "a", "b", "d", "i"} \cup {Digits[k] : k \in 1..10} |->
     CASE c = "/" -> 47
       [] c = "_" -> 95
       [] c = "a" -> 97
       [] c = "b" -> 98
       [] c = "d" -> 100
       [] c = "i" -> 105
       [] OTHER -> 47 + (CHOOSE k \in 1..10 : Digits[k] = c)]

Ord(c) == CodePoint[c]

\* Python's < on str: lexicographic by code point, a proper prefix is smaller
RECURSIVE StrLess(_, _)
StrLess(s, t) ==
  IF t = <<>> THEN FALSE
  ELSE IF s = <<>> THEN TRUE
  ELSE IF Ord(Head(s)) # Ord(Head(t)) THEN Ord(Head(s)) < Ord(Head(t))
  ELSE StrLess(Tail(s), Tail(t))

\* uri.replace("/", "_")
ReplaceSlash(s) == [i \in 1..Len(s) |-> IF s[i] = "/" THEN "_" ELSE s[i]]

Max(a, b) == IF a >= b THEN a ELSE b

\* the title separator of merge
TitleSep == <<" ", "/", " ">>

\* ------------------------------------------------------------ build_programs
ChanIdOf(s) ==
  ReplaceSlash(IF s.uri_name # Absent THEN s.uri_name ELSE <<"i", "d", "_">> \o Str(s.id))

TitleOf(s) ==
  IF s.name # Absent THEN s.name ELSE <<"s", "t", "r", "e", "a", "m", "_">> \o Str(s.id)

HasChannel(chans, cid) == \E k \in 1..Len(chans) : chans[k].id = cid

\* the two loops of build_programs over the categories' stream records, in order
RECURSIVE Flatten(_)
Flatten(cats) == IF cats = <<>> THEN <<>> ELSE Head(cats).streams \o Flatten(Tail(cats))

\* one iteration of the inner loop on stream record s
BuildStep(st, s) ==
  LET cid == ChanIdOf(s)
      chans == IF HasChannel(st.channels, cid) THEN st.channels
               ELSE Append(st.channels, [id |-> cid, display |-> cid])
  IN IF s.starts_at = NoTime \/ s.ends_at = NoTime
     THEN [channels |-> chans, programmes |-> st.programmes]
     ELSE [channels |-> chans,
           programmes |-> Append(st.programmes,
                                 [channel |-> cid, start |-> s.starts_at, stop |-> s.ends_at,
                                  title |-> TitleOf(s), id |-> s.id])]

RECURSIVE BuildFrom(_, _)
BuildFrom(streams, st) ==
  IF streams = <<>> THEN st ELSE BuildFrom(Tail(streams), BuildStep(st, Head(streams)))

BuildProgramsOf(d) == BuildFrom(Flatten(d), [channels |-> <<>>, programmes |-> <<>>])

\* ------------------------------------------------------------------- sorting
\* the elements of a list
Elems(s) == {s[i] : i \in 1..Len(s)}

\* sorted() / list.sort(): the stable sort of s, where less holds the pairs <<x, y>>
\* of elements with key(x) < key(y)
StableSort(s, less) ==
  LET n == Len(s)
      \* the place of s[i]: after the smaller ones and after the earlier equal ones
      pos == [i \in 1..n |->
                1 + Cardinality({j \in 1..n : \/ <<s[j], s[i]>> \in less
                                              \/ <<s[i], s[j]>> \notin less /\ j < i})]
  IN [k \in 1..n |-> s[CHOOSE i \in 1..n : pos[i] = k]]

\* key=lambda x: x["start"]
StartLess(h, a, b) == h[a].start < h[b].start

\* Python's < on the tuples (x["channel"], x["start"])
ChanStartLess(h, a, b) ==
  \/ StrLess(h[a].channel, h[b].channel)
  \/ h[a].channel = h[b].channel /\ h[a].start < h[b].start

\* ------------------------------------------------------------ clean_overlaps
\* by_chan: the channels in first-seen order, each with its programmes in input order
RECURSIVE ChanOrder(_, _, _)
ChanOrder(h, progs, seen) ==
  IF progs = <<>> THEN seen
  ELSE ChanOrder(h, Tail(progs),
                 IF \E k \in 1..Len(seen) : seen[k] = h[Head(progs)].channel
                 THEN seen ELSE Append(seen, h[Head(progs)].channel))

ByChan(h, progs, chan) == SelectSeq(progs, LAMBDA p : h[p].channel = chan)

\* plist.sort(key=lambda x: x["start"])
SortPlist(h, plist) ==
  StableSort(plist, {x \in Elems(plist) \X Elems(plist) : StartLess(h, x[1], x[2])})

\* cur = p, with no copy: cur is the caller's own dict
CopyAliased(h, p) == [heap |-> h, ref |-> p]

\* p.copy(): a new dict with p's fields
Copy(h, p) == [heap |-> Append(h, h[p]), ref |-> Len(h) + 1]

\* the overlap test against cur's start instead of its stop
OverlapByStart(h, cur, p) == h[p].start < h[cur].start

\* the overlap test with <= : programmes that merely touch count as overlapping
OverlapTouching(h, cur, p) == h[p].start <= h[cur].stop

\* if p["start"] < cur["stop"]
Overlap(h, cur, p) == h[p].start < h[cur].stop

\* the containment test with < : equal starts are trimmed, not superseded
CompleteOverlapStrict(h, cur, p) == h[p].start < h[cur].start

\* if p["start"] <= cur["start"]
CompleteOverlap(h, cur, p) == h[p].start <= h[cur].start

\* trimming that leaves a one-second gap before p
TrimStopGap(h, cur, p) == h[p].start - 1

\* cur["stop"] = p["start"]
TrimStop(h, cur, p) == h[p].start

\* merging that takes p's stop without the max
MergeStopLast(h, cur, p) == h[p].stop

\* cur["stop"] = max(cur["stop"], p["stop"])
MergeStop(h, cur, p) == Max(h[cur].stop, h[p].stop)

\* merging that puts p's title first
MergeTitleSwapped(h, cur, p) == h[p].title \o TitleSep \o h[cur].title

\* cur["title"] = f"{cur['title']} / {p['title']}"
MergeTitle(h, cur, p) == h[cur].title \o TitleSep \o h[p].title

\* cur = p.copy(), with merged either left alone or appended to first
TakeCopy(h, merged, p) ==
  LET c == Copy(h, p) IN [heap |-> c.heap, merged |-> merged, cur |-> c.ref]

\* one iteration of `for p in plist`
SweepStep(st, p, strat) ==
  LET h == st.heap
      cur == st.cur
  IN IF cur = NoRef THEN TakeCopy(h, st.merged, p)
     ELSE IF Overlap(h, cur, p)
     THEN IF strat = "trim"
          THEN IF CompleteOverlap(h, cur, p)
               THEN TakeCopy(h, st.merged, p)
               ELSE TakeCopy([h EXCEPT ![cur].stop = TrimStop(h, cur, p)],
                             Append(st.merged, cur), p)
          ELSE [heap |-> [h EXCEPT ![cur].stop = MergeStop(h, cur, p),
                                   ![cur].title = MergeTitle(h, cur, p)],
                merged |-> st.merged, cur |-> cur]
     ELSE TakeCopy(h, Append(st.merged, cur), p)

RECURSIVE Sweep(_, _, _)
Sweep(plist, st, strat) ==
  IF plist = <<>> THEN st ELSE Sweep(Tail(plist), SweepStep(st, Head(plist), strat), strat)

\* the sweep without its final append
FinalizeDropped(st) == st.merged

\* if cur is not None: merged.append(cur)
Finalize(st) == IF st.cur # NoRef THEN Append(st.merged, st.cur) ELSE st.merged

\* the body of `for chan, plist in by_chan.items()` for one channel
CleanChannel(acc, progs, chan, strat) ==
  LET plist == SortPlist(acc.heap, ByChan(acc.heap, progs, chan))
      st == Sweep(plist, [heap |-> acc.heap, merged |-> <<>>, cur |-> NoRef], strat)
  IN [heap |-> st.heap, cleaned |-> acc.cleaned \o Finalize(st)]

RECURSIVE CleanChannels(_, _, _, _)
CleanChannels(acc, progs, chans, strat) ==
  IF chans = <<>> THEN acc
  ELSE CleanChannels(CleanChannel(acc, progs, Head(chans), strat), progs, Tail(chans), strat)

\* key of the final sorted(cleaned, ...)
CleanedKeyLess(h, a, b) == ChanStartLess(h, a, b)

\* clean_overlaps(programmes, strategy): the heap after the call and the list returned
\* return sorted(cleaned, key=lambda x: (x["channel"], x["start"]))
SortCleaned(h, merged) ==
  [heap |-> h,
   cleaned |-> StableSort(merged,
                         {x \in Elems(merged) \X Elems(merged) : CleanedKeyLess(h, x[1], x[2])})]

CleanOverlapsResult(acc) == SortCleaned(acc.heap, acc.cleaned)

CleanOverlapsOf(h, progs, strat) ==
  CleanOverlapsResult(
    CleanChannels([heap |-> h, cleaned |-> <<>>], progs, ChanOrder(h, progs, <<>>), strat))

\* ------------------------------------------------------------ generate_xmltv
\* UTC offset, in minutes, of the default time zone Asia/Manila
TzOffsetMinutes == 480

Abs(n) == IF n >= 0 THEN n ELSE 0 - n

\* xmltv_time(ts, tz): the local wall-clock second and the rendered offset
XmltvTime(ts) ==
  [local |-> ts + (TzOffsetMinutes * 60),
   sign |-> IF TzOffsetMinutes >= 0 THEN "+" ELSE "-",
   hh |-> Abs(TzOffsetMinutes) \div 60,
   mm |-> Abs(TzOffsetMinutes) % 60]

\* the emitter's sort key without the channel
EmitKeyStartOnly(h, a, b) == h[a].start < h[b].start

\* key of sorted(programmes, ...) in generate_xmltv
EmitKeyLess(h, a, b) == ChanStartLess(h, a, b)

ProgrammeElement(p) ==
  [start |-> XmltvTime(p.start), stop |-> XmltvTime(p.stop), channel |-> p.channel,
   title |-> p.title, episode_num |-> p.id,
   length |-> Max(0, (p.stop - p.start) \div 60)]

GenerateXmltvOf(chans, h, progs) ==
  LET sorted == StableSort(progs, {x \in Elems(progs) \X Elems(progs) : EmitKeyLess(h, x[1], x[2])})
  IN [channel |-> [k \in 1..Len(chans) |-> [id |-> chans[k].id, display_name |-> chans[k].display]],
      programme |-> [k \in 1..Len(sorted) |-> ProgrammeElement(h[sorted[k]])]]

\* ------------------------------------------------------------------- inputs
Letters == <<"A", "B", "C", "D", "E", "F", "G", "H">>

\* the stream records of the given shapes; record i has id i and, if named, the i-th name
Records(shapes) ==
  [i \in 1..Len(shapes) |->
     [uri_name |-> shapes[i].uri_name, id |-> i,
      name |-> IF shapes[i].named THEN <<Letters[i]>> ELSE Absent,
      starts_at |-> shapes[i].starts_at, ends_at |-> shapes[i].ends_at]]

SeqsUpTo(S, n) == UNION {[1..k -> S] : k \in 0..n}

\* stream records that carry every field
TimedShapes ==
  [uri_name : {<<"a">>, <<"b">>}, named : {TRUE},
   starts_at : 0..MaxTime, ends_at : 0..MaxTime]

\* stream records of one channel, each with starts_at < ends_at
RunShapes ==
  {s \in [uri_name : {<<"a">>}, named : {TRUE},
          starts_at : 0..MaxRunTime, ends_at : 0..MaxRunTime] : s.starts_at < s.ends_at}

\* stream records any of whose optional fields may be missing
AnyShapes ==
  [uri_name : {Absent, <<"a">>, <<"a", "/", "b">>}, named : BOOLEAN,
   starts_at : {NoTime} \cup 0..MaxUpTime, ends_at : {NoTime} \cup 0..MaxUpTime]

Undefined == [channel |-> <<>>, programme |-> <<>>]

InitWith(d) ==
  /\ data = d
  /\ strategy = "unset"
  /\ channels = <<>>
  /\ programmes = <<>>
  /\ heap = <<>>
  /\ cleaned = <<>>
  /\ xml_raw = Undefined
  /\ xml_clean = Undefined
  /\ pc = "fetched"

\* after fetch_api: one category of records that all carry their times
Init == \E shapes \in SeqsUpTo(TimedShapes, MaxLen) : InitWith(<<[streams |-> Records(shapes)]>>)

\* after fetch_api: one category of one channel's records, all of positive duration
InitRun == \E shapes \in SeqsUpTo(RunShapes, MaxRun) : InitWith(<<[streams |-> Records(shapes)]>>)

\* after fetch_api: two categories of records with optional fields
InitUpstream ==
  \E shapes \in SeqsUpTo(AnyShapes, MaxStreams) : \E cut \in 0..Len(shapes) :
    InitWith(<<[streams |-> SubSeq(Records(shapes), 1, cut)],
               [streams |-> SubSeq(Records(shapes), cut + 1, Len(shapes))]>>)

\* ------------------------------------------------------------------ actions
\* channels, programmes = build_programs(data, tz)
BuildPrograms ==
  /\ pc = "fetched"
  /\ \E b \in {BuildProgramsOf(data)} :
       /\ channels' = b.channels
       /\ heap' = b.programmes
       /\ programmes' = [i \in 1..Len(b.programmes) |-> i]
  /\ pc' = "built"
  /\ UNCHANGED <<data, strategy, cleaned, xml_raw, xml_clean>>

\* xmltv_raw = generate_xmltv(channels, programmes, tz)
GenerateRaw ==
  /\ pc = "built"
  /\ xml_raw' = GenerateXmltvOf(channels, heap, programmes)
  /\ pc' = "raw"
  /\ UNCHANGED <<data, strategy, channels, programmes, heap, cleaned, xml_clean>>

\* cleaned_programmes = clean_overlaps(programmes, strategy=args.clean_strategy)
CleanOverlaps ==
  /\ pc = "raw"
  /\ \E strat \in {"trim", "merge"} : \E c \in {CleanOverlapsOf(heap, programmes, strat)} :
       /\ strategy' = strat
       /\ heap' = c.heap
       /\ cleaned' = c.cleaned
  /\ pc' = "cleaned"
  /\ UNCHANGED <<data, channels, programmes, xml_raw, xml_clean>>

\* xmltv_clean = generate_xmltv(channels, cleaned_programmes, tz)
GenerateClean ==
  /\ pc = "cleaned"
  /\ xml_clean' = GenerateXmltvOf(channels, heap, cleaned)
  /\ pc' = "done"
  /\ UNCHANGED <<data, strategy, channels, programmes, heap, cleaned, xml_raw>>

Next == BuildPrograms \/ GenerateRaw \/ CleanOverlaps \/ GenerateClean

Spec == Init /\ [][Next]_vars

SpecRun == InitRun /\ [][Next]_vars

SpecUpstream == InitUpstream /\ [][Next]_vars


\* ------------------------------------------------------------ the claims
Cleaned == pc \in {"cleaned", "done"}

NIn == Len(programmes)
In(i) == heap[programmes[i]]
NOut == Len(cleaned)
Out(k) == heap[cleaned[k]]

Min(a, b) == IF a <= b THEN a ELSE b

SameChannel(i, j) == In(i).channel = In(j).channel
OnChan(c) == {i \in 1..NIn : In(i).channel = c}
OutOnChan(c) == {k \in 1..NOut : Out(k).channel = c}

\* i comes before j in the stable start order of their channel
Precedes(i, j) == In(i).start < In(j).start \/ (In(i).start = In(j).start /\ i < j)

\* the half-open ranges [start, stop) of a and b have a common point
RangesIntersect(a, b) == Max(a.start, b.start) < Min(a.stop, b.stop)

\* C1: under both strategies, any two programmes of the cleaned list on the same
\* channel, a before b in the list, satisfy a.stop <= b.start.
C1_NoOverlapAfterCleaning ==
  Cleaned => \A i, j \in 1..NOut :
               (i < j /\ Out(i).channel = Out(j).channel) => Out(i).stop <= Out(j).start

\* two input programmes of one channel intersect and the channel keeps two programmes
C1_Witness ==
  /\ Cleaned
  /\ \E i, j \in 1..NIn :
       /\ i # j /\ SameChannel(i, j) /\ RangesIntersect(In(i), In(j))
       /\ Cardinality(OutOnChan(In(i).channel)) = 2

\* i then j are the whole start-sorted list of a channel, j overlaps i and starts
\* no later than i (so: at the same second)
SupersedingPair(i, j) ==
  /\ i < j /\ SameChannel(i, j) /\ OnChan(In(i).channel) = {i, j}
  /\ In(j).start < In(i).stop
  /\ In(j).start <= In(i).start /\ Precedes(i, j)

\* the channel of j has one output programme, j's verbatim
OnlySurvivor(j) ==
  \E k \in 1..NOut : OutOnChan(In(j).channel) = {k} /\ Out(k) = In(j)

\* C2 as stated: under either strategy the current programme is discarded and the
\* overlapping programme that starts no later replaces it, title and all.
C2_SupersededUnderEitherStrategy ==
  Cleaned => \A i, j \in 1..NIn : SupersedingPair(i, j) => OnlySurvivor(j)

\* C2 amended: the programme is superseded under trim; under merge the two are
\* merged like any other overlap, keeping the first one's start, the larger stop
\* and both titles.
C2_SupersededUnderTrimOnly ==
  Cleaned => \A i, j \in 1..NIn : SupersedingPair(i, j) =>
    IF strategy = "trim" THEN OnlySurvivor(j)
    ELSE \E k \in 1..NOut :
           /\ OutOnChan(In(i).channel) = {k}
           /\ Out(k) = [In(i) EXCEPT !.stop = Max(In(i).stop, In(j).stop),
                                     !.title = In(i).title \o TitleSep \o In(j).title]

C2_Witness ==
  /\ Cleaned /\ strategy = "trim"
  /\ \E i, j \in 1..NIn : SupersedingPair(i, j) /\ In(i).stop # In(j).stop /\ OnlySurvivor(j)

\* the largest stop among the first k programmes of s
RECURSIVE MaxStop(_, _)
MaxStop(s, k) == IF k = 1 THEN heap[s[1]].stop ELSE Max(MaxStop(s, k - 1), heap[s[k]].stop)

\* the titles of s joined by " / "
RECURSIVE JoinTitles(_, _)
JoinTitles(s, k) ==
  IF k = 1 THEN heap[s[1]].title ELSE JoinTitles(s, k - 1) \o TitleSep \o heap[s[k]].title

\* the input programmes of channel c in stable start order
InStartOrder(c) ==
  StableSort(SelectSeq(programmes, LAMBDA p : heap[p].channel = c),
             {x \in Elems(programmes) \X Elems(programmes) : heap[x[1]].start < heap[x[2]].start})

\* every programme of s after the first starts after the first one starts and
\* before the stop accumulated so far
PartialRun(s) ==
  /\ Len(s) >= 2
  /\ \A k \in 2..Len(s) :
       heap[s[1]].start < heap[s[k]].start /\ heap[s[k]].start < MaxStop(s, k - 1)

\* C3: under merge a channel whose start-sorted programmes each partially overlap
\* the accumulated current one comes out as one programme: the first start, the
\* largest stop, the titles in start order joined by " / ".
C3_MergeAccumulates ==
  (Cleaned /\ strategy = "merge") =>
    \A i \in 1..NIn :
      LET s == InStartOrder(In(i).channel)
      IN PartialRun(s) =>
           \E k \in 1..NOut :
             /\ OutOnChan(In(i).channel) = {k}
             /\ Out(k).start = heap[s[1]].start
             /\ Out(k).stop = MaxStop(s, Len(s))
             /\ Out(k).title = JoinTitles(s, Len(s))

\* a run of three in which the third overlaps only the stop extended by the second
C3_Witness ==
  /\ Cleaned /\ strategy = "merge" /\ NIn = 3
  /\ LET s == InStartOrder(In(1).channel)
     IN /\ Len(s) = 3 /\ PartialRun(s)
        /\ heap[s[3]].start >= heap[s[1]].stop
        /\ heap[s[2]].start < heap[s[3]].start
        /\ NOut = 1 /\ Out(1).title = JoinTitles(s, 3)

\* no two input programmes of one channel have intersecting [start, stop) ranges
DisjointRanges ==
  \A i, j \in 1..NIn : (i # j /\ SameChannel(i, j)) => ~RangesIntersect(In(i), In(j))

\* within a channel every programme starts at or after the stop of each programme
\* before it in the stable start order
StartsAfterEarlierStops ==
  \A i, j \in 1..NIn : (i # j /\ SameChannel(i, j) /\ Precedes(i, j)) => In(i).stop <= In(j).start

\* the cleaned list is the input list up to order, field for field
ReturnedUnchanged ==
  /\ NOut = NIn
  /\ \A i \in 1..NIn : \E k \in 1..NOut : Out(k) = In(i)

\* C4 as stated: an input with pairwise disjoint ranges, zero-length and equal-start
\* programmes included, is returned unchanged up to order.
C4_DisjointReturnedUnchanged == (Cleaned /\ DisjointRanges) => ReturnedUnchanged

\* C4 amended: an input in which every programme starts at or after the stop of
\* every earlier programme of its channel is returned unchanged up to order.
C4_SeparatedReturnedUnchanged == (Cleaned /\ StartsAfterEarlierStops) => ReturnedUnchanged

\* two separated programmes of one channel, given latest first
C4_Witness ==
  /\ Cleaned /\ StartsAfterEarlierStops
  /\ \E i, j \in 1..NIn : i < j /\ SameChannel(i, j) /\ In(j).start < In(i).start
  /\ cleaned # programmes

Verbatim(k) == \E i \in 1..NIn : Out(k) = In(i)

\* C5 as stated: under trim no output programme has stop < start, whatever the input.
C5_TrimNeverNegative ==
  (Cleaned /\ strategy = "trim") => \A k \in 1..NOut : Out(k).stop >= Out(k).start

\* C5 amended: under trim every output programme is an input programme verbatim
\* or has start < stop; so stop < start occurs in the output only as an input
\* programme passed through.
C5_TrimCreatesNoNegative ==
  (Cleaned /\ strategy = "trim") => \A k \in 1..NOut : Verbatim(k) \/ Out(k).start < Out(k).stop

\* a programme is trimmed against a negative-duration programme, which passes through
C5_Witness ==
  /\ Cleaned /\ strategy = "trim"
  /\ \E k \in 1..NOut : ~Verbatim(k)
  /\ \E k \in 1..NOut : Out(k).stop < Out(k).start

\* C6: the channel ids of the cleaned list are exactly the channel ids of the input.
C6_ChannelsPreserved ==
  Cleaned => {Out(k).channel : k \in 1..NOut} = {In(i).channel : i \in 1..NIn}

\* a programme is discarded and its channel is still there
C6_Witness ==
  /\ Cleaned /\ NOut < NIn /\ strategy = "trim"
  /\ \E i \in 1..NIn : OutOnChan(In(i).channel) # {} /\ \A k \in 1..NOut : Out(k).id # In(i).id

\* (channel, start) of a is at most that of b
KeyLeq(a, b) == StrLess(a.channel, b.channel) \/ (a.channel = b.channel /\ a.start <= b.start)

ElementKey(e) == [channel |-> e.channel, start |-> e.start.local]

\* where the programme with the given id stands in list
PosOf(list, id) == CHOOSE k \in 1..Len(list) : heap[list[k]].id = id

\* the programme elements of x are one per programme of list, in non-decreasing
\* (channel, start) order, ties in the order of list
EmittedInOrder(x, list) ==
  /\ Len(x.programme) = Len(list)
  /\ \A k \in 1..Len(list) : \E e \in 1..Len(x.programme) :
       x.programme[e].episode_num = heap[list[k]].id
  /\ \A i, j \in 1..Len(x.programme) : i < j =>
       LET a == x.programme[i]
           b == x.programme[j]
       IN /\ KeyLeq(ElementKey(a), ElementKey(b))
          /\ KeyLeq(ElementKey(b), ElementKey(a)) =>
               PosOf(list, a.episode_num) < PosOf(list, b.episode_num)

C8_EveryChannelHasProgramme ==
  pc # "fetched" => \A c \in 1..Len(channels) : OnChan(channels[c].id) # {}

\* t is base followed by " / " and more
IsComposite(t, base) ==
  Len(t) > Len(base) + Len(TitleSep) /\ SubSeq(t, 1, Len(base) + Len(TitleSep)) = base \o TitleSep

\* C9: every output programme starts where an input programme of its channel
\* starts and stops where one stops or (trim) starts; it is an input programme
\* verbatim, or with a smaller stop (trim), or with a stop at least as large and
\* a composite title (merge).
C9_NoInventedRanges ==
  Cleaned => \A k \in 1..NOut :
    LET o == Out(k)
        chan == OnChan(o.channel)
    IN /\ \E i \in chan : In(i).start = o.start
       /\ \/ \E i \in chan : In(i).stop = o.stop
          \/ strategy = "trim" /\ \E i \in chan : In(i).start = o.stop
       /\ \E i \in chan :
            \/ o = In(i)
            \/ /\ strategy = "trim"
               /\ o = [In(i) EXCEPT !.stop = o.stop]
               /\ o.stop < In(i).stop
            \/ /\ strategy = "merge"
               /\ o = [In(i) EXCEPT !.stop = o.stop, !.title = o.title]
               /\ o.stop >= In(i).stop
               /\ IsComposite(o.title, In(i).title)

\* a merged programme whose stop was extended
C9_Witness ==
  /\ Cleaned /\ strategy = "merge"
  /\ \E k \in 1..NOut : \E i \in 1..NIn :
       Out(k).id = In(i).id /\ Out(k).stop > In(i).stop /\ Out(k).title # In(i).title

\* C10: clean_overlaps leaves the list it is given and every programme of it as
\* they were.
C10_ArgumentUnchanged ==
  [][(pc = "raw" /\ pc' = "cleaned") =>
       /\ programmes' = programmes
       /\ \A i \in 1..NIn : heap'[programmes[i]] = heap[programmes[i]]]_vars

\* the call returned a programme rewritten from an input programme
C10_Witness ==
  /\ pc = "cleaned"
  /\ \E k \in 1..NOut : ~Verbatim(k)
  /\ \A k \in 1..NOut : \A i \in 1..NIn : cleaned[k] # programmes[i]

====
